---- MODULE Spec2Model ----
\* Kalavastha: the orchestrator of src/index.tsx (component Layout) as a state
\* machine.  A JavaScript string is a sequence of one-character strings, so
\* that toLowerCase, trim, the template literals and the coordinate regular
\* expression are computed and not assumed.  A nullable value is a sequence
\* of length 0 (null / absent) or 1.
EXTENDS Integers, Sequences, FiniteSets, TLC

\* ------------------------------------------------------------------ bounds
\* manual searches (form, history list, geolocation) issued in one run
MaxSearches == 2
\* model requests awaiting their reply at the same time
MaxInFlight == 2

\* ---------------------------------------------------------------- strings
Paris == <<"P", "a", "r", "i", "s">>
paris == <<"p", "a", "r", "i", "s">>
Tokyo == <<"T", "o", "k", "y", "o">>
Oslo == <<"O", "s", "l", "o">>
Rome == <<"R", "o", "m", "e">>
Lima == <<"L", "i", "m", "a">>
Kyiv == <<"K", "y", "i", "v">>
FR == <<"F", "R">>
NO == <<"N", "O">>

\* the fixed message of the catch block:
\* 'An unexpected error occurred while fetching weather data. Please try again.'
TransportMessage ==
    <<"A", "n", " ", "u", "n", "e", "x", "p", "e", "c", "t", "e", "d", " ",
      "e", "r", "r", "o", "r", " ", "o", "c", "c", "u", "r", "r", "e", "d",
      " ", "w", "h", "i", "l", "e", " ", "f", "e", "t", "c", "h", "i", "n",
      "g", " ", "w", "e", "a", "t", "h", "e", "r", " ", "d", "a", "t", "a",
      ".", " ", "P", "l", "e", "a", "s", "e", " ", "t", "r", "y", " ", "a",
      "g", "a", "i", "n", ".">>

\* the message set on PERMISSION_DENIED:
\* 'Location access denied. Please allow location access to see weather for your current location, or search for a city manually.'
DeniedMessage ==
    <<"L", "o", "c", "a", "t", "i", "o", "n", " ", "a", "c", "c", "e", "s",
      "s", " ", "d", "e", "n", "i", "e", "d", ".", " ", "P", "l", "e", "a",
      "s", "e", " ", "a", "l", "l", "o", "w", " ", "l", "o", "c", "a", "t",
      "i", "o", "n", " ", "a", "c", "c", "e", "s", "s", " ", "t", "o", " ",
      "s", "e", "e", " ", "w", "e", "a", "t", "h", "e", "r", " ", "f", "o",
      "r", " ", "y", "o", "u", "r", " ", "c", "u", "r", "r", "e", "n", "t",
      " ", "l", "o", "c", "a", "t", "i", "o", "n", ",", " ", "o", "r", " ",
      "s", "e", "a", "r", "c", "h", " ", "f", "o", "r", " ", "a", " ", "c",
      "i", "t", "y", " ", "m", "a", "n", "u", "a", "l", "l", "y", ".">>

\* the message set on any other geolocation error:
\* 'Could not get your location automatically. Please search for a city manually.'
UnavailableMessage ==
    <<"C", "o", "u", "l", "d", " ", "n", "o", "t", " ", "g", "e", "t", " ",
      "y", "o", "u", "r", " ", "l", "o", "c", "a", "t", "i", "o", "n", " ",
      "a", "u", "t", "o", "m", "a", "t", "i", "c", "a", "l", "l", "y", ".",
      " ", "P", "l", "e", "a", "s", "e", " ", "s", "e", "a", "r", "c", "h",
      " ", "f", "o", "r", " ", "a", " ", "c", "i", "t", "y", " ", "m", "a",
      "n", "u", "a", "l", "l", "y", ".">>

\* the message set when navigator.geolocation is missing:
\* 'Geolocation is not supported by your browser. Please search for a city manually.'
UnsupportedMessage ==
    <<"G", "e", "o", "l", "o", "c", "a", "t", "i", "o", "n", " ", "i", "s",
      " ", "n", "o", "t", " ", "s", "u", "p", "p", "o", "r", "t", "e", "d",
      " ", "b", "y", " ", "y", "o", "u", "r", " ", "b", "r", "o", "w", "s",
      "e", "r", ".", " ", "P", "l", "e", "a", "s", "e", " ", "s", "e", "a",
      "r", "c", "h", " ", "f", "o", "r", " ", "a", " ", "c", "i", "t", "y",
      " ", "m", "a", "n", "u", "a", "l", "l", "y", ".">>

\* the substring Home looks for to offer Grant Access:
\* 'Location access denied'
DeniedMarker ==
    <<"L", "o", "c", "a", "t", "i", "o", "n", " ", "a", "c", "c", "e", "s",
      "s", " ", "d", "e", "n", "i", "e", "d">>

\* a message the language model may put in the reply's error field:
\* 'City not found'
CityNotFound ==
    <<"C", "i", "t", "y", " ", "n", "o", "t", " ", "f", "o", "u", "n", "d">>

Null == <<>>
Some(v) == <<v>>

UpperCase == <<"A", "B", "C", "D", "E", "F", "G", "H", "I", "J", "K", "L", "M",
               "N", "O", "P", "Q", "R", "S", "T", "U", "V", "W", "X", "Y", "Z">>
LowerCase == <<"a", "b", "c", "d", "e", "f", "g", "h", "i", "j", "k", "l", "m",
               "n", "o", "p", "q", "r", "s", "t", "u", "v", "w", "x", "y", "z">>

LowerOf == [c \in {UpperCase[i] : i \in 1..26} |->
                LowerCase[CHOOSE i \in 1..26 : UpperCase[i] = c]]

LowerChar(c) == IF c \in DOMAIN LowerOf THEN LowerOf[c] ELSE c

\* String.prototype.toLowerCase
toLowerCase(s) == [i \in 1..Len(s) |-> LowerChar(s[i])]

WhiteSpace == {" ", "\t", "\n"}

\* String.prototype.trim
trim(s) ==
    LET keep == {i \in 1..Len(s) : s[i] \notin WhiteSpace}
    IN  IF keep = {} THEN <<>>
        ELSE SubSeq(s, CHOOSE i \in keep : \A j \in keep : i <= j,
                       CHOOSE i \in keep : \A j \in keep : j <= i)

\* String.prototype.includes
includes(s, sub) ==
    \E i \in 0..(Len(s) - Len(sub)) : \A k \in 1..Len(sub) : s[i + k] = sub[k]

DigitChar == <<"0", "1", "2", "3", "4", "5", "6", "7", "8", "9">>

RECURSIVE Digits(_)
Digits(n) == IF n < 10 THEN <<DigitChar[n + 1]>>
             ELSE Digits(n \div 10) \o <<DigitChar[(n % 10) + 1]>>

\* a Number, as Number::toString sees it: the sign, the digits s of its
\* shortest decimal form (no trailing zero) and the exponent n, so that the
\* value is 0.s times 10^n
Num(neg, s, n) == [neg |-> neg, s |-> s, n |-> n]

\* a run of n zeros
Zeros(n) == [i \in 1..n |-> "0"]

\* a number inside a template literal: `${latitude}` is ToString(latitude),
\* which writes the digits plainly while 10^-7 <= |value| < 10^21 and in
\* exponent notation otherwise
NumToStr(x) ==
    LET d == Digits(x.s)
        k == Len(d)
        n == x.n
        e == n - 1
        body ==
            IF k <= n /\ n <= 21 THEN d \o Zeros(n - k)
            ELSE IF 0 < n /\ n <= 21
                 THEN SubSeq(d, 1, n) \o <<".">> \o SubSeq(d, n + 1, k)
            ELSE IF -6 < n /\ n <= 0
                 THEN <<"0", ".">> \o Zeros(0 - n) \o d
            ELSE (IF k = 1 THEN d ELSE <<d[1], ".">> \o SubSeq(d, 2, k))
                 \o <<"e">>
                 \o (IF e < 0 THEN <<"-">> \o Digits(0 - e)
                              ELSE <<"+">> \o Digits(e))
    IN  IF x.s = 0 THEN <<"0">>
        ELSE (IF x.neg THEN <<"-">> ELSE <<>>) \o body

\* [\d.]+
IsNumChars(s) ==
    /\ Len(s) >= 1
    /\ \A i \in 1..Len(s) : s[i] = "." \/ \E d \in 1..10 : DigitChar[d] = s[i]

\* -?[\d.]+
IsSignedNum(s) ==
    \/ IsNumChars(s)
    \/ Len(s) >= 1 /\ s[1] = "-" /\ IsNumChars(SubSeq(s, 2, Len(s)))

\* /^-?[\d.]+, ?-?[\d.]+$/.test(locationQuery.trim())
IsCoords(locationQuery) ==
    LET s == trim(locationQuery)
    IN  \E i \in 1..Len(s) :
            /\ s[i] = ","
            /\ IsSignedNum(SubSeq(s, 1, i - 1))
            /\ LET r == SubSeq(s, i + 1, Len(s))
               IN  \/ IsSignedNum(r)
                   \/ Len(r) >= 1 /\ r[1] = " " /\ IsSignedNum(SubSeq(r, 2, Len(r)))

\* `${data.location.name}, ${data.location.country}`
LocationLabel(data) == data.location.name \o <<",", " ">> \o data.location.country

\* `${latitude},${longitude}`
CoordQuery(position) == NumToStr(position[1]) \o <<",">> \o NumToStr(position[2])

\* Array.prototype.slice(0, n)
slice(arr, n) == SubSeq(arr, 1, IF Len(arr) < n THEN Len(arr) ELSE n)

\* the cap of the search history
HistoryCap == 5

\* const historyEntry = isCoords ? `${name}, ${country}` : locationQuery
HistoryEntry(locationQuery, data) ==
    IF IsCoords(locationQuery) THEN LocationLabel(data) ELSE locationQuery

\* NewHistory with a case-sensitive filter
NewHistoryExactMatch(historyEntry, captured) ==
    LET differs(item) == item # historyEntry
    IN  slice(<<historyEntry>> \o SelectSeq(captured, differs), HistoryCap)

\* NewHistory that keeps the position the entry had
NewHistoryInPlace(historyEntry, captured) ==
    LET same(item) == toLowerCase(item) = toLowerCase(historyEntry)
    IN  IF SelectSeq(captured, same) = <<>>
        THEN slice(<<historyEntry>> \o captured, HistoryCap)
        ELSE [i \in 1..Len(captured) |->
                 IF same(captured[i]) THEN historyEntry ELSE captured[i]]

\* [historyEntry, ...searchHistory.filter(differs case-insensitively)].slice(0, 5)
NewHistory(historyEntry, captured) ==
    LET differs(item) == toLowerCase(item) # toLowerCase(historyEntry)
    IN  slice(<<historyEntry>> \o SelectSeq(captured, differs), HistoryCap)

\* if (data.error): a string is truthy when it is present and not empty
HasError(data) == data.error # Null /\ data.error[1] # <<>>

\* ------------------------------------------------------------ persistence
\* the values of the preferences, as the strings localStorage holds
Celsius == <<"C">>
Fahrenheit == <<"F">>
emojis == <<"e", "m", "o", "j", "i", "s">>
classic == <<"c", "l", "a", "s", "s", "i", "c">>
light == <<"l", "i", "g", "h", "t">>
dark == <<"d", "a", "r", "k">>
ocean == <<"o", "c", "e", "a", "n">>

\* localStorage.getItem(key) || fallback: null and '' give the fallback
OrDefault(item, fallback) ==
    IF item = Null \/ item[1] = <<>> THEN fallback ELSE item[1]

\* JSON.stringify of a string without its quotes: " and \ are escaped
RECURSIVE JSONescape(_)
JSONescape(s) ==
    IF s = <<>> THEN <<>>
    ELSE (IF Head(s) \in {"\"", "\\"} THEN <<"\\", Head(s)>> ELSE <<Head(s)>>)
         \o JSONescape(Tail(s))

JSONquote(s) == <<"\"">> \o JSONescape(s) \o <<"\"">>

RECURSIVE JSONjoin(_)
JSONjoin(arr) ==
    IF arr = <<>> THEN <<>>
    ELSE IF Len(arr) = 1 THEN JSONquote(arr[1])
    ELSE JSONquote(arr[1]) \o <<",">> \o JSONjoin(Tail(arr))

\* JSON.stringify(searchHistory): an array of strings
JSONstringify(arr) == <<"[">> \o JSONjoin(arr) \o <<"]">>

\* the outcome of JSON.parse: the value, or a SyntaxError thrown
Throws == [ok |-> FALSE, value |-> <<>>]
Parsed(v) == [ok |-> TRUE, value |-> v]

RECURSIVE SkipWs(_, _)
SkipWs(text, i) ==
    IF i <= Len(text) /\ text[i] \in WhiteSpace THEN SkipWs(text, i + 1) ELSE i

\* reads the rest of a string literal whose opening quote is before index i;
\* of the escapes only \" \\ and \/ are read, the others are not written by
\* JSONstringify for the characters used here
RECURSIVE ReadString(_, _, _)
ReadString(text, i, acc) ==
    IF i > Len(text) THEN [ok |-> FALSE, value |-> <<>>, next |-> i]
    ELSE IF text[i] = "\"" THEN [ok |-> TRUE, value |-> acc, next |-> i + 1]
    ELSE IF text[i] = "\\"
    THEN IF i + 1 <= Len(text) /\ text[i + 1] \in {"\"", "\\", "/"}
         THEN ReadString(text, i + 2, Append(acc, text[i + 1]))
         ELSE [ok |-> FALSE, value |-> <<>>, next |-> i]
    ELSE ReadString(text, i + 1, Append(acc, text[i]))

\* reads the elements of an array from index i on, up to the closing bracket
RECURSIVE ReadItems(_, _, _)
ReadItems(text, i, acc) ==
    LET j == SkipWs(text, i)
    IN  IF j > Len(text) \/ text[j] # "\"" THEN Throws
        ELSE LET s == ReadString(text, j + 1, <<>>)
                 k == SkipWs(text, s.next)
             IN  IF ~s.ok \/ k > Len(text) THEN Throws
                 ELSE IF text[k] = ","
                 THEN ReadItems(text, k + 1, Append(acc, s.value))
                 ELSE IF text[k] = "]" /\ SkipWs(text, k + 1) > Len(text)
                 THEN Parsed(Append(acc, s.value))
                 ELSE Throws

\* JSON.parse of a text that is an array of strings or is no JSON at all
JSONparse(text) ==
    LET j == SkipWs(text, 1)
    IN  IF j > Len(text) \/ text[j] # "[" THEN Throws
        ELSE LET k == SkipWs(text, j + 1)
             IN  IF k <= Len(text) /\ text[k] = "]"
                 THEN IF SkipWs(text, k + 1) > Len(text)
                      THEN Parsed(<<>>) ELSE Throws
                 ELSE ReadItems(text, j + 1, <<>>)

\* ------------------------------------------------------------ environment
\* a reply of the language model, already parsed: interface WeatherData
Reply(name, country, celsius, err) ==
    [location |-> [name |-> name, country |-> country],
     temperatureCelsius |-> celsius,
     error |-> err]

\* the replies the model may give to any request: a reading for Paris, one
\* for Oslo that carries an empty error string, and a domain failure
Replies ==
    {Reply(Paris, FR, 21, Null), Reply(Oslo, NO, 5, Some(<<>>)),
     Reply(<<>>, <<>>, 0, Some(CityNotFound))}

\* what the user may type in the search box
TypedQueries == {<<" ">>, paris, <<" ">> \o Kyiv \o <<" ">>}

\* the positions the device may report (latitude, longitude): 48, -2
Positions == {<<Num(FALSE, 48, 2), Num(TRUE, 2, 1)>>}

\* what a rejected request or JSON.parse may throw: err.message
FailedToFetch ==
    <<"F", "a", "i", "l", "e", "d", " ", "t", "o", " ", "f", "e", "t", "c", "h">>
UnexpectedToken ==
    <<"U", "n", "e", "x", "p", "e", "c", "t", "e", "d", " ", "t", "o", "k", "e", "n">>
Exceptions == {FailedToFetch, UnexpectedToken}

\* the search histories localStorage may hold at startup
StoredHistory == <<Paris, Tokyo, Oslo, Rome, Lima>>
StoredHistories == {SubSeq(StoredHistory, 1, n) : n \in {0, 2, HistoryCap}}

\* ------------------------------------------------------------------ state
VARIABLES
    query,          \* useState(''): the text of the search box
    weatherData,    \* useState(null): the snapshot, Null or Some(reply)
    isLoading,      \* useState(false)
    isRefreshing,   \* useState(false)
    error,          \* useState(null): Null or Some(message)
    searchHistory,  \* useState(JSON.parse(localStorage 'weather-history'))
    mounted,        \* whether the mount effect has run
    geoSupported,   \* whether navigator.geolocation exists: a fact of the
                    \* browser, "unread" until requestGeolocation first
                    \* reads it
    inflight,       \* pending generateContent calls, oldest first, each with
                    \* the arguments and closure of its fetchWeather call
    geoPending,     \* pending getCurrentPosition calls, each with the
                    \* searchHistory its fetchWeather closure captured
    nSearch,        \* number of manual searches issued so far
    solo,           \* history: the fetch in flight, if any, has been the
                    \* only one in flight since it was issued
    overtaken,      \* history: a fetch issued after the oldest pending one
                    \* has already succeeded
    last,           \* history: what the latest step did
    unit,           \* useState(localStorage 'weather-unit' || 'C')
    iconSet,        \* useState(localStorage 'weather-icon-set' || 'emojis')
    theme,          \* useState(localStorage 'weather-theme' || 'light')
    storage,        \* localStorage: each key absent (Null) or Some(text)
    timers,         \* the active refresh intervals, each with the snapshot
                    \* its callback captured
    crashed         \* the first render of Layout threw: nothing is mounted

vars == <<query, weatherData, isLoading, isRefreshing, error, searchHistory,
          mounted, geoSupported, inflight, geoPending, nSearch, solo,
          overtaken, last, unit, iconSet, theme, storage, timers, crashed>>

\* an event: a fetch issued ("issue"), a fetch completed ("done") with its
\* outcome and reply, a geolocation event ("geo"), a submit that issued
\* nothing ("submit"), a reload ("restart"), or nothing ("none").
\* alone: the completed fetch was never in flight together with another;
\* late: a fetch issued after the completed one had succeeded before it
Event(ev, isRefresh, outcome, reply, alone, late) ==
    [ev |-> ev, isRefresh |-> isRefresh, outcome |-> outcome, reply |-> reply,
     alone |-> alone, late |-> late]

NoEvent == Event("none", FALSE, "none", Null, FALSE, FALSE)
GeoEvent(outcome) == Event("geo", FALSE, outcome, Null, FALSE, FALSE)

\* what localStorage holds under its four keys
Stored(u, i, t, h) == [unit |-> u, iconSet |-> i, theme |-> t, history |-> h]

\* the stores a session of the orchestrator may start from: no preference
\* stored, and a history the program wrote
StoredStates ==
    {Stored(Null, Null, Null, Some(JSONstringify(h))) : h \in StoredHistories}

\* the initialisers of useState: localStorage.getItem(key) || fallback
InitialUnit(st) == OrDefault(st.unit, Celsius)
InitialIconSet(st) == OrDefault(st.iconSet, emojis)
InitialTheme(st) == OrDefault(st.theme, light)
\* JSON.parse(localStorage.getItem('weather-history') || '[]')
InitialHistory(st) == JSONparse(OrDefault(st.history, <<"[", "]">>))

\* the state the first render of Layout builds from the store
FirstRender ==
    /\ query = <<>>
    /\ weatherData = Null
    /\ isLoading = FALSE
    /\ isRefreshing = FALSE
    /\ error = Null
    /\ unit = InitialUnit(storage)
    /\ iconSet = InitialIconSet(storage)
    /\ theme = InitialTheme(storage)
    /\ crashed = ~InitialHistory(storage).ok
    /\ searchHistory = InitialHistory(storage).value
    /\ mounted = FALSE
    /\ geoSupported = "unread"
    /\ inflight = <<>>
    /\ geoPending = <<>>
    /\ timers = <<>>
    /\ nSearch = 0
    /\ solo = TRUE
    /\ overtaken = FALSE
    /\ last = NoEvent

Init ==
    /\ storage \in StoredStates
    /\ FirstRender

\* removal of the i-th element of a sequence
RemoveAt(s, i) == SubSeq(s, 1, i - 1) \o SubSeq(s, i + 1, Len(s))

\* ------------------------------------------------ fetchWeather, up to await
\* IssueSnapshot that leaves the snapshot in place
IssueSnapshotKept(isRefresh, prior) == prior

\* if (!isRefresh) { setIsLoading(true); setWeatherData(null); setError(null);
\*                   navigate('/'); }
\* The page the router shows is not part of the state: the header's links
\* reach every page at any time, and no handler reads the page.
IssueLoading(isRefresh, prior) == IF isRefresh THEN prior ELSE TRUE
IssueSnapshot(isRefresh, prior) == IF isRefresh THEN prior ELSE Null
IssueError(isRefresh, prior) == IF isRefresh THEN prior ELSE Null

\* fetchWeather(locationQuery, isRefresh) called through a closure that
\* captured the history `captured` (kept for a manual search, which alone
\* reads it); runs up to the await of generateContent.
\* Leaves query, isRefreshing, searchHistory, geoPending to the caller.
fetchWeather(locationQuery, isRefresh, via, captured) ==
    /\ locationQuery # <<>>
    /\ isRefresh \/ nSearch < MaxSearches
    /\ Len(inflight) < MaxInFlight
    /\ isLoading' = IssueLoading(isRefresh, isLoading)
    /\ weatherData' = IssueSnapshot(isRefresh, weatherData)
    /\ error' = IssueError(isRefresh, error)
    /\ nSearch' = IF isRefresh THEN nSearch ELSE nSearch + 1
    /\ inflight' = Append(inflight,
                          [q |-> locationQuery, isRefresh |-> isRefresh,
                           via |-> via,
                           hist |-> IF isRefresh THEN <<>> ELSE captured])
    /\ solo' = (inflight = <<>>)
    /\ overtaken' = overtaken
    /\ last' = Event("issue", isRefresh, "none", Null, FALSE, FALSE)

\* ---------------------------------------------------------------- effects
\* persistEffect with an empty dependency list: it runs after the mount only
persistEffectOnMount(kept, mounting, changed, text) ==
    IF mounting THEN Some(text) ELSE kept

\* useEffect(() => localStorage.setItem(key, text), [value]): runs after the
\* mount and after every render in which the value changed
persistEffect(kept, mounting, changed, text) ==
    IF mounting \/ changed THEN Some(text) ELSE kept

\* timerEffect without the cleanup that clears the interval
timerEffectNoCleanup(active, mounting, changed, before, after) ==
    IF mounting \/ changed
    THEN active \o (IF after # Null THEN <<after[1]>> ELSE <<>>)
    ELSE active

\* useEffect(..., [weatherData, fetchWeather]): when it runs again the
\* interval the run before set is cleared, and a new one is set if
\* weatherData?.location
timerEffect(active, mounting, changed, before, after) ==
    IF mounting \/ changed
    THEN (IF ~mounting /\ before # Null THEN Tail(active) ELSE active)
         \o (IF after # Null THEN <<after[1]>> ELSE <<>>)
    ELSE active

\* the effects of Layout, run when the state change of a step is committed.
\* fetchWeather is a new function whenever searchHistory is.
useEffects ==
    LET mounting == ~mounted /\ mounted'
    IN  /\ storage' =
               Stored(persistEffect(storage.unit, mounting, unit' # unit, unit'),
                      persistEffect(storage.iconSet, mounting,
                                    iconSet' # iconSet, iconSet'),
                      persistEffect(storage.theme, mounting,
                                    theme' # theme, theme'),
                      persistEffect(storage.history, mounting,
                                    searchHistory' # searchHistory,
                                    JSONstringify(searchHistory')))
        /\ timers' = timerEffect(timers, mounting,
                                 weatherData' # weatherData
                                     \/ searchHistory' # searchHistory,
                                 weatherData, weatherData')

\* a step of the orchestrator: no preference is touched
Committed == UNCHANGED <<unit, iconSet, theme, crashed>> /\ useEffects

\* ------------------------------------------------------------ user intents
\* onChange of the search box; the input is disabled while isLoading
setQuery(q) ==
    /\ mounted
    /\ ~isLoading
    /\ query' = q
    /\ last' = NoEvent
    /\ UNCHANGED <<weatherData, isLoading, isRefreshing, error, searchHistory,
                   mounted, geoSupported, inflight, geoPending, nSearch, solo,
                   overtaken>>
    /\ Committed

\* handleSearch that passes the text of the box as typed
handleSearchUntrimmed ==
    /\ mounted
    /\ ~isLoading
    /\ IF query = <<>>
       THEN /\ last' = Event("submit", FALSE, "empty", Null, FALSE, FALSE)
            /\ UNCHANGED <<weatherData, isLoading, error, inflight, nSearch,
                           solo, overtaken, query, isRefreshing,
                           searchHistory, mounted, geoSupported, geoPending>>
       ELSE /\ fetchWeather(query, FALSE, "form", searchHistory)
            /\ UNCHANGED <<query, isRefreshing, searchHistory, mounted,
                           geoSupported, geoPending>>
    /\ Committed

\* onSubmit of the search form (its button is disabled while isLoading):
\* fetchWeather(query.trim()), which returns at once on an empty string
handleSearch ==
    /\ mounted
    /\ ~isLoading
    /\ IF trim(query) = <<>>
       THEN /\ last' = Event("submit", FALSE, "empty", Null, FALSE, FALSE)
            /\ UNCHANGED <<weatherData, isLoading, error, inflight, nSearch,
                           solo, overtaken, query, isRefreshing,
                           searchHistory, mounted, geoSupported, geoPending>>
       ELSE /\ fetchWeather(trim(query), FALSE, "form", searchHistory)
            /\ UNCHANGED <<query, isRefreshing, searchHistory, mounted,
                           geoSupported, geoPending>>
    /\ Committed

\* a button of the Settings page's history list
handleHistorySearch(i) ==
    /\ mounted
    /\ i \in 1..Len(searchHistory)
    /\ fetchWeather(searchHistory[i], FALSE, "history", searchHistory)
    /\ UNCHANGED <<query, isRefreshing, searchHistory, mounted, geoSupported,
                   geoPending>>
    /\ Committed

\* CardShown that forgets the loader
CardShownWhileLoading == weatherData # Null /\ error = Null

\* Home shows the weather card when weatherData && !isLoading && !error
CardShown == weatherData # Null /\ ~isLoading /\ error = Null

\* the Refresh button of the weather card (disabled while isRefreshing)
handleRefresh ==
    /\ mounted
    /\ CardShown
    /\ ~isRefreshing
    /\ isRefreshing' = TRUE
    /\ fetchWeather(LocationLabel(weatherData[1]), TRUE, "button", searchHistory)
    /\ UNCHANGED <<query, searchHistory, mounted, geoSupported, geoPending>>
    /\ Committed

\* a tick of the 15-minute interval, armed while a snapshot is present; the
\* request of the tick before has been answered or has failed by then
TimerTick ==
    /\ mounted
    /\ \A k \in 1..Len(inflight) : inflight[k].via # "timer"
    /\ \E t \in 1..Len(timers) :
           fetchWeather(LocationLabel(timers[t]), TRUE, "timer", searchHistory)
    /\ UNCHANGED <<query, isRefreshing, searchHistory, mounted, geoSupported,
                   geoPending>>
    /\ Committed

\* ------------------------------------------------------------ geolocation
\* requestGeolocation, up to the call of getCurrentPosition; leaves mounted
\* to the caller
requestGeolocation ==
    /\ \E supported \in BOOLEAN :
        /\ geoSupported \in {"unread", IF supported THEN "yes" ELSE "no"}
        /\ geoSupported' = IF supported THEN "yes" ELSE "no"
        /\ IF supported
           THEN /\ error' = Null
                /\ isLoading' = IF weatherData = Null THEN TRUE ELSE isLoading
                /\ geoPending' = Append(geoPending, [hist |-> searchHistory])
                /\ last' = GeoEvent("requested")
           ELSE /\ error' = Some(UnsupportedMessage)
                /\ last' = GeoEvent("unsupported")
                /\ UNCHANGED <<isLoading, geoPending>>
    /\ UNCHANGED <<query, weatherData, isRefreshing, searchHistory, inflight,
                   nSearch, solo, overtaken>>

\* Mount that asks for the position whatever the history holds
MountAlways ==
    /\ ~mounted
    /\ ~crashed
    /\ mounted' = TRUE
    /\ requestGeolocation
    /\ Committed

\* useEffect(..., []): on mount, if (!weatherData && searchHistory.length === 0)
Mount ==
    /\ ~mounted
    /\ ~crashed
    /\ mounted' = TRUE
    /\ IF weatherData = Null /\ Len(searchHistory) = 0
       THEN requestGeolocation
       ELSE /\ last' = NoEvent
            /\ UNCHANGED <<query, weatherData, isLoading, isRefreshing, error,
                           searchHistory, geoSupported, inflight, geoPending,
                           nSearch, solo, overtaken>>
    /\ Committed

\* the Grant Access button, shown when error.includes('Location access denied')
GrantAccess ==
    /\ mounted
    /\ error # Null
    /\ includes(error[1], DeniedMarker)
    /\ requestGeolocation
    /\ UNCHANGED mounted
    /\ Committed

\* the success callback: fetchWeather(`${latitude},${longitude}`), through the
\* fetchWeather the pending requestGeolocation closure holds
geoSuccess(i, position) ==
    /\ i \in 1..Len(geoPending)
    /\ geoPending' = RemoveAt(geoPending, i)
    /\ fetchWeather(CoordQuery(position), FALSE, "geo", geoPending[i].hist)
    /\ UNCHANGED <<query, isRefreshing, searchHistory, mounted, geoSupported>>
    /\ Committed

\* geoError that leaves the loader on
geoErrorLoaderKept(i, denied) ==
    /\ i \in 1..Len(geoPending)
    /\ geoPending' = RemoveAt(geoPending, i)
    /\ isLoading' = isLoading
    /\ error' = IF denied THEN Some(DeniedMessage) ELSE Some(UnavailableMessage)
    /\ last' = GeoEvent(IF denied THEN "denied" ELSE "unavailable")
    /\ UNCHANGED <<query, weatherData, isRefreshing, searchHistory, mounted,
                   geoSupported, inflight, nSearch, solo, overtaken>>
    /\ Committed

\* geoError that reports every failure as a denial
geoErrorAlwaysDenied(i, denied) ==
    /\ i \in 1..Len(geoPending)
    /\ geoPending' = RemoveAt(geoPending, i)
    /\ isLoading' = FALSE
    /\ error' = Some(DeniedMessage)
    /\ last' = GeoEvent(IF denied THEN "denied" ELSE "unavailable")
    /\ UNCHANGED <<query, weatherData, isRefreshing, searchHistory, mounted,
                   geoSupported, inflight, nSearch, solo, overtaken>>
    /\ Committed

\* the error callback; denied is err.code === err.PERMISSION_DENIED
geoError(i, denied) ==
    /\ i \in 1..Len(geoPending)
    /\ geoPending' = RemoveAt(geoPending, i)
    /\ isLoading' = FALSE
    /\ error' = IF denied THEN Some(DeniedMessage) ELSE Some(UnavailableMessage)
    /\ last' = GeoEvent(IF denied THEN "denied" ELSE "unavailable")
    /\ UNCHANGED <<query, weatherData, isRefreshing, searchHistory, mounted,
                   geoSupported, inflight, nSearch, solo, overtaken>>
    /\ Committed

\* --------------------------------------------- fetchWeather, after the await
\* ReplyError that reports a domain failure with the generic message
ReplyErrorGeneric(isRefresh, data, prior) ==
    IF HasError(data)
    THEN IF isRefresh THEN prior ELSE Some(TransportMessage)
    ELSE Null

\* ReplyError that shows the domain failure of a refresh as well
ReplyErrorOnRefresh(isRefresh, data, prior) ==
    IF HasError(data) THEN Some(data.error[1]) ELSE Null

\* if (data.error) { if (!isRefresh) setError(data.error) }
\* else { setError(null); ... }
ReplyError(isRefresh, data, prior) ==
    IF HasError(data)
    THEN IF isRefresh THEN prior ELSE Some(data.error[1])
    ELSE Null

\* ReplySnapshot that discards the reply of a fetch overtaken by a later one
ReplySnapshotUnlessStale(f, data, prior) ==
    IF HasError(data) \/ (overtaken /\ f = inflight[1])
    THEN prior
    ELSE Some(data)

\* ReplySnapshot that keeps a snapshot a refresh finds
ReplySnapshotKeptOnRefresh(f, data, prior) ==
    IF HasError(data) \/ (f.isRefresh /\ prior # Null) THEN prior ELSE Some(data)

\* else { ...; setWeatherData(data); ... }
ReplySnapshot(f, data, prior) ==
    IF HasError(data) THEN prior ELSE Some(data)

\* ReplyHistory that records a refresh as a search
ReplyHistoryAlways(f, data, prior) ==
    IF HasError(data)
    THEN prior
    ELSE NewHistory(HistoryEntry(f.q, data), prior)

\* else { ...; if (!isRefresh) { ...; setSearchHistory(newHistory) } }
ReplyHistory(f, data, prior) ==
    IF HasError(data) \/ f.isRefresh
    THEN prior
    ELSE NewHistory(HistoryEntry(f.q, data), f.hist)

\* CatchError that shows the exception's own message
CatchErrorRaw(isRefresh, err, prior) ==
    IF isRefresh THEN prior ELSE Some(err)

\* CatchError that reports a refresh failure as well
CatchErrorAlways(isRefresh, err, prior) == Some(TransportMessage)

\* catch (err) { if (!isRefresh) setError("An unexpected error ...") }
CatchError(isRefresh, err, prior) ==
    IF isRefresh THEN prior ELSE Some(TransportMessage)

\* FinallyLoading that leaves the loader on
FinallyLoadingKept(isRefresh, prior) == prior

\* finally { if (!isRefresh) { setIsLoading(false); setQuery('') } }
FinallyLoading(isRefresh, prior) == IF isRefresh THEN prior ELSE FALSE
FinallyQuery(isRefresh, prior) == IF isRefresh THEN prior ELSE <<>>

\* AfterRefreshing that never lowers the flag
AfterRefreshingKept(via, prior) == prior

\* handleRefresh: await fetchWeather(...); setIsRefreshing(false)
AfterRefreshing(via, prior) == IF via = "button" THEN FALSE ELSE prior

\* fetch i leaves the pending calls with the given outcome and reply
Settle(i, outcome, reply) ==
    /\ inflight' = RemoveAt(inflight, i)
    /\ solo' = (Len(inflight) = 1)
    /\ overtaken' = IF i = 1 THEN FALSE ELSE (overtaken \/ outcome = "ok")
    /\ last' = Event("done", inflight[i].isRefresh, outcome, reply,
                     solo /\ Len(inflight) = 1, overtaken /\ i = 1)

\* generateContent resolves with a reply that parses as data
fetchReply(i, data) ==
    /\ i \in 1..Len(inflight)
    /\ LET f == inflight[i]
       IN  /\ error' = ReplyError(f.isRefresh, data, error)
           /\ weatherData' = ReplySnapshot(f, data, weatherData)
           /\ searchHistory' = ReplyHistory(f, data, searchHistory)
           /\ isLoading' = FinallyLoading(f.isRefresh, isLoading)
           /\ query' = FinallyQuery(f.isRefresh, query)
           /\ isRefreshing' = AfterRefreshing(f.via, isRefreshing)
    /\ Settle(i, IF HasError(data) THEN "domain" ELSE "ok", Some(data))
    /\ UNCHANGED <<mounted, geoSupported, geoPending, nSearch>>
    /\ Committed

\* generateContent rejects, or JSON.parse(response.text) throws, with err
fetchThrow(i, err) ==
    /\ i \in 1..Len(inflight)
    /\ LET f == inflight[i]
       IN  /\ error' = CatchError(f.isRefresh, err, error)
           /\ isLoading' = FinallyLoading(f.isRefresh, isLoading)
           /\ query' = FinallyQuery(f.isRefresh, query)
           /\ isRefreshing' = AfterRefreshing(f.via, isRefreshing)
    /\ Settle(i, "throw", Null)
    /\ UNCHANGED <<weatherData, searchHistory, mounted, geoSupported,
                   geoPending, nSearch>>
    /\ Committed

\* ------------------------------------------------- preferences and restart
Units == {Celsius, Fahrenheit}
IconSets == {emojis, classic}
Themes == {light, dark, ocean}

\* the state of the orchestrator a preference button leaves alone
session == <<query, weatherData, isLoading, isRefreshing, error, searchHistory,
             mounted, geoSupported, inflight, geoPending, nSearch, solo,
             overtaken>>

\* the unit buttons of the Settings page
setUnit(u) ==
    /\ mounted
    /\ unit' = u
    /\ last' = NoEvent
    /\ UNCHANGED <<session, iconSet, theme, crashed>>
    /\ useEffects

\* the icon set buttons of the Settings page
setIconSet(i) ==
    /\ mounted
    /\ iconSet' = i
    /\ last' = NoEvent
    /\ UNCHANGED <<session, unit, theme, crashed>>
    /\ useEffects

\* the theme buttons of the Settings page
setTheme(t) ==
    /\ mounted
    /\ theme' = t
    /\ last' = NoEvent
    /\ UNCHANGED <<session, unit, iconSet, crashed>>
    /\ useEffects

\* the page is reloaded: Layout unmounts, which clears its interval, the
\* pending callbacks die with the page, and the first render of the new page
\* reads the store again.  The browser and the search budget stay.
Restart ==
    /\ mounted
    /\ storage' = storage
    /\ query' = <<>>
    /\ weatherData' = Null
    /\ isLoading' = FALSE
    /\ isRefreshing' = FALSE
    /\ error' = Null
    /\ unit' = InitialUnit(storage)
    /\ iconSet' = InitialIconSet(storage)
    /\ theme' = InitialTheme(storage)
    /\ crashed' = ~InitialHistory(storage).ok
    /\ searchHistory' = InitialHistory(storage).value
    /\ mounted' = FALSE
    /\ inflight' = <<>>
    /\ geoPending' = <<>>
    /\ timers' = <<>>
    /\ solo' = TRUE
    /\ overtaken' = FALSE
    /\ last' = Event("restart", FALSE, "none", Null, FALSE, FALSE)
    /\ UNCHANGED <<geoSupported, nSearch>>

\* ---------------------------------------------------------- specification
Next ==
    \/ Mount
    \/ \E q \in TypedQueries : setQuery(q)
    \/ handleSearch
    \/ \E i \in {1, Len(searchHistory)} : handleHistorySearch(i)
    \/ handleRefresh
    \/ TimerTick
    \/ GrantAccess
    \/ \E i \in 1..Len(geoPending), p \in Positions : geoSuccess(i, p)
    \/ \E i \in 1..Len(geoPending), d \in BOOLEAN : geoError(i, d)
    \/ \E i \in 1..Len(inflight), d \in Replies : fetchReply(i, d)
    \/ \E i \in 1..Len(inflight), e \in Exceptions : fetchThrow(i, e)
    \/ Restart

Spec == Init /\ [][Next]_vars

\* ------------------------------------------- the preference store by itself
\* a history entry with the characters JSON escapes
Quoted == <<"a", "\"", "\\", "b">>

\* a stored history cut short, which is no JSON
Unparsable == <<"[", "\"", "P", "a", "r", "i", "s", "\"", ",">>

\* what the store may hold when a session starts: nothing or a value the
\* program wrote under each preference key; under the history key nothing,
\* an array the program wrote, or a damaged text
StoreStates ==
    {Stored(p[1], p[2], p[3], h) :
        p \in {<<Null, Null, Null>>,
               <<Some(Fahrenheit), Some(classic), Some(ocean)>>},
        h \in {Null, Some(JSONstringify(<<Quoted, Tokyo>>)), Some(Unparsable)}}

StoreInit ==
    /\ storage \in StoreStates
    /\ FirstRender

\* the sessions of the Settings page: preference buttons, history clicks and
\* form searches with their replies, and reloads
StoreNext ==
    \/ Mount
    \/ \E u \in Units : setUnit(u)
    \/ \E i \in IconSets : setIconSet(i)
    \/ \E t \in Themes : setTheme(t)
    \/ \E q \in TypedQueries : setQuery(q)
    \/ handleSearch
    \/ \E i \in {1, Len(searchHistory)} : handleHistorySearch(i)
    \/ \E i \in 1..Len(inflight), d \in Replies : fetchReply(i, d)
    \/ \E i \in 1..Len(inflight), e \in Exceptions : fetchThrow(i, e)
    \/ Restart

StoreSpec == StoreInit /\ [][StoreNext]_vars

\* ------------------------------------------------ the first visit by itself
\* the positions a device may report in full precision: Paris, a point
\* eleven millimetres north of the equator in Uganda, and the point above
FinePositions ==
    Positions \cup
    {<<Num(FALSE, 488566, 2), Num(FALSE, 23522, 1)>>,
     <<Num(FALSE, 1, -6), Num(FALSE, 3, 2)>>}

\* a browser that has stored nothing yet
GeoInit ==
    /\ storage = Stored(Null, Null, Null, Null)
    /\ FirstRender

\* the sessions of a visitor who never types: the position asked at mount
\* and by Grant Access, its answers, refreshes of the snapshot, the replies
\* to every fetch, and reloads
GeoNext ==
    \/ Mount
    \/ GrantAccess
    \/ handleRefresh
    \/ TimerTick
    \/ \E i \in 1..Len(geoPending), p \in FinePositions : geoSuccess(i, p)
    \/ \E i \in 1..Len(geoPending), d \in BOOLEAN : geoError(i, d)
    \/ \E i \in 1..Len(inflight), d \in Replies : fetchReply(i, d)
    \/ \E i \in 1..Len(inflight), e \in Exceptions : fetchThrow(i, e)
    \/ Restart

GeoSpec == GeoInit /\ [][GeoNext]_vars

TypeOK ==
    /\ isLoading \in BOOLEAN /\ isRefreshing \in BOOLEAN
    /\ Len(weatherData) <= 1 /\ Len(error) <= 1
    /\ Len(inflight) <= MaxInFlight /\ nSearch <= MaxSearches
    /\ Len(inflight) >= 2 => ~solo
    /\ unit \in Units /\ iconSet \in IconSets /\ theme \in Themes
    /\ crashed \in BOOLEAN /\ Len(timers) <= 1
\* ------------------------------------------------------------- properties
\* the step completes a pending fetch, which last' then describes
Completes == last'.ev = "done" /\ Len(inflight') = Len(inflight) - 1

\* the step issues a fetch, which last' then describes
Issues == last'.ev = "issue" /\ Len(inflight') = Len(inflight) + 1

\* the latest step completed a fetch
Done(isRefresh, outcomes) ==
    last.ev = "done" /\ last.isRefresh = isRefresh /\ last.outcome \in outcomes

EqualIgnoringCase(a, b) == toLowerCase(a) = toLowerCase(b)

\* C1: in every reachable state searchHistory has at most 5 entries and no
\* two of its entries are equal when compared case-insensitively.
HistoryCappedAndDistinct ==
    /\ Len(searchHistory) <= HistoryCap
    /\ \A i, j \in 1..Len(searchHistory) :
           i # j => ~EqualIgnoringCase(searchHistory[i], searchHistory[j])

\* C1 witness: a search for "paris" has succeeded against the full history
\* that held "Paris": the history is still full and starts with the new
\* spelling.
HistoryFullAfterResearch ==
    /\ Done(FALSE, {"ok"})
    /\ Len(searchHistory) = HistoryCap
    /\ searchHistory[1] = paris

\* new is q followed by the entries of prev that differ from q
\* case-insensitively, in their order in prev, cut to HistoryCap entries
MovedToFront(q, prev, new) ==
    LET kept == {i \in 1..Len(prev) : ~EqualIgnoringCase(prev[i], q)}
        nth(k) == CHOOSE i \in kept : Cardinality({j \in kept : j < i}) = k - 1
    IN  /\ Len(new) = IF 1 + Cardinality(kept) < HistoryCap
                      THEN 1 + Cardinality(kept) ELSE HistoryCap
        /\ new[1] = q
        /\ \A k \in 2..Len(new) : new[k] = prev[nth(k - 1)]

ReplyReplacesSnapshot ==
    (/\ last.ev = "done"
     /\ last.reply # Null
     /\ last.reply[1].error = Null)
    => (weatherData = last.reply /\ error = Null)

\* C3 witness: of two refreshes of the snapshot "Oslo, NO" one is pending and
\* the other was answered with the reading for Paris, now the snapshot.
RefreshReplacedOslo ==
    /\ Done(TRUE, {"ok"})
    /\ \E k \in 1..Len(inflight) :
           inflight[k].isRefresh /\ inflight[k].q = Oslo \o <<",", " ">> \o NO
    /\ last.reply = Some(Reply(Paris, FR, 21, Null))
    /\ weatherData = last.reply

\* C4: when a manual search completes with a reply whose error field is set,
\* error becomes exactly that message, isLoading becomes false and the
\* history is unchanged.
DomainFailureSetsMessage ==
    [][(Completes /\ last'.outcome = "domain" /\ ~last'.isRefresh)
       => /\ error' = Some(last'.reply[1].error[1])
          /\ isLoading' = FALSE
          /\ searchHistory' = searchHistory]_vars

\* C4 witness: a manual search was answered "City not found".
CityNotFoundShown ==
    /\ Done(FALSE, {"domain"})
    /\ error = Some(CityNotFound)
    /\ ~isLoading
    /\ searchHistory # <<>>

\* C5 as claimed: in the state right after a manual search completes with a
\* failure the snapshot is absent, whatever overlapped the search.
FailedSearchLeavesNoSnapshot ==
    Done(FALSE, {"domain", "throw"}) => weatherData = Null

\* C5 as amended: a manual search that completes with a failure leaves the
\* snapshot as the completion finds it; the snapshot is then absent whenever
\* no other fetch was in flight while that search was (a fetch that
\* overlapped the search and succeeded meanwhile leaves its reply behind).
FailedSearchKeepsSnapshot ==
    [][(/\ Completes
        /\ ~last'.isRefresh /\ last'.outcome \in {"domain", "throw"})
       => /\ weatherData' = weatherData
          /\ last'.alone => weatherData' = Null]_vars

\* C5 witness: from an empty history a search for Kyiv succeeded and set a
\* snapshot; a second search, alone in flight, has failed: no snapshot.
SecondSearchFailedAlone ==
    /\ Done(FALSE, {"domain", "throw"}) /\ last.alone
    /\ nSearch = 2 /\ searchHistory = <<Kyiv>>
    /\ weatherData = Null

\* C6: when a manual search fails by transport or parse failure, error is
\* the one fixed generic message, whatever was thrown, and isLoading is
\* false; that message is no message of a domain failure.
TransportFailureIsGeneric ==
    Done(FALSE, {"throw"})
    => /\ error = Some(TransportMessage)
       /\ \A e \in Exceptions : error # Some(e)
       /\ \A d \in Replies : HasError(d) => error # Some(d.error[1])
       /\ ~isLoading

\* C6 witness: a search, the only fetch issued, has thrown; the error shown
\* is the generic one and the loader is gone.
TransportFailureShown ==
    /\ Done(FALSE, {"throw"}) /\ last.alone /\ nSearch = 1
    /\ error = Some(TransportMessage)
    /\ ~isLoading

\* C7: issuing a refresh (timer or button) and the failure of a refresh
\* (domain or transport) both leave snapshot, error, isLoading and
\* searchHistory unchanged.
RefreshFailureIsSilent ==
    [][(\/ Issues /\ last'.isRefresh
        \/ Completes /\ last'.isRefresh /\ last'.outcome \in {"domain", "throw"})
       => UNCHANGED <<weatherData, error, isLoading, searchHistory>>]_vars

\* C7 witness: a refresh has failed after a search issued during it failed:
\* the search's error is still shown.
RefreshFailedQuietly ==
    /\ Done(TRUE, {"domain", "throw"})
    /\ error = Some(CityNotFound)
    /\ weatherData = Null

\* C8: when a refresh (timer or button) succeeds, the snapshot is replaced
\* by the reply and error is cleared, while searchHistory and isLoading are
\* left unchanged.
RefreshSuccessReplacesSnapshot ==
    [][(Completes /\ last'.isRefresh /\ last'.outcome = "ok")
       => /\ weatherData' = last'.reply
          /\ error' = Null
          /\ UNCHANGED <<searchHistory, isLoading>>]_vars

\* C8 witness: a refresh has succeeded while a search issued during it is
\* still loading: the snapshot is the reply, the loader is still on and the
\* history holds only the one search that succeeded before.
RefreshSucceededWhileLoading ==
    /\ Done(TRUE, {"ok"})
    /\ weatherData = last.reply /\ error = Null
    /\ isLoading /\ nSearch = 2 /\ searchHistory = <<Kyiv>>

\* a manual search is still in flight
ManualInFlight == \E i \in 1..Len(inflight) : ~inflight[i].isRefresh

\* C9 as claimed: a manual search clears the snapshot when it is issued, and
\* in every state in which a manual search is still in flight no weather card
\* is displayed.
NoCardWhileSearching ==
    [][/\ (Issues /\ ~last'.isRefresh) => weatherData' = Null
       /\ ManualInFlight' => ~CardShown']_vars

\* C9 as amended: a manual search clears the snapshot and raises isLoading
\* when it is issued; isLoading falls only when a manual search completes, a
\* geolocation request fails or the page is reloaded, not necessarily when
\* the search last issued completes; and no weather card is displayed while
\* isLoading is true.
NoCardWhileLoading ==
    [][/\ (Issues /\ ~last'.isRefresh) => (weatherData' = Null /\ isLoading')
       /\ (isLoading /\ ~isLoading')
              => \/ Completes /\ ~last'.isRefresh
                 \/ last'.ev = "geo" /\ last'.outcome \in {"denied", "unavailable"}
                 \/ last'.ev = "restart"
       /\ isLoading' => ~CardShown']_vars

\* C9 witness: a manual search is in flight and loading; a refresh issued
\* before it has succeeded and set a snapshot, which is not displayed.
SnapshotHiddenWhileLoading ==
    /\ ManualInFlight /\ isLoading
    /\ Done(TRUE, {"ok"})
    /\ weatherData # Null /\ error = Null
    /\ ~CardShown

\* C10: if two fetches overlap and both succeed, the snapshot after both
\* have completed is the reply of the one that completed last, also when it
\* was issued first; no completion is discarded as stale.
LastCompletionWins ==
    (last.ev = "done" /\ last.outcome = "ok" /\ ~last.alone)
    => weatherData = last.reply

\* C10 witness: a fetch has succeeded after a fetch issued later than it had
\* already succeeded, and the snapshot is the reply of the older fetch.
OlderFetchOverwrote ==
    /\ last.ev = "done" /\ last.outcome = "ok" /\ last.late
    /\ weatherData = last.reply
\* the step calls requestGeolocation, in a browser with or without geolocation
AsksPosition == last'.ev = "geo" /\ last'.outcome \in {"requested", "unsupported"}

\* C11: device coordinates are requested automatically only by the mount
\* step and only when there is no snapshot and the loaded history is empty;
\* the page mounts once per session (mounted falls only at a reload), and
\* every other request is the Grant Access button, which the user presses.
PositionAskedAtMountOrByUser ==
    [][/\ AsksPosition
           => \/ /\ ~mounted /\ mounted'
                 /\ weatherData = Null /\ searchHistory = <<>>
              \/ /\ mounted /\ mounted'
                 /\ error # Null /\ includes(error[1], DeniedMarker)
       /\ (mounted /\ ~mounted') => last'.ev = "restart"]_vars

\* C11 witness: the automatic request was denied, the user typed "paris" and
\* then pressed Grant Access: a second request is pending.
PositionAskedAgainByUser ==
    /\ last = GeoEvent("requested")
    /\ query = paris
    /\ Len(geoPending) = 1
    /\ searchHistory = <<>>
\* Home offers the Grant Access action
GrantAccessOffered(err) == err # Null /\ includes(err[1], DeniedMarker)

\* C12: a permission denial sets isLoading to false and error to a message
\* containing 'Location access denied'; every other step that sets error
\* (transport failure, domain failure, position unavailable, geolocation
\* unsupported) sets a message without that marker, so Grant Access is
\* offered exactly for a denial.
DenialAloneOffersGrantAccess ==
    [][/\ (last'.ev = "geo" /\ last'.outcome = "denied"
              /\ geoPending' # geoPending)
           => (~isLoading' /\ GrantAccessOffered(error'))
       /\ (GrantAccessOffered(error') /\ error' # error)
           => (last'.ev = "geo" /\ last'.outcome = "denied")]_vars

\* C12 witness: the position request was denied; the loader is off and the
\* error shown carries the marker.
AccessDeniedShown ==
    /\ last = GeoEvent("denied")
    /\ ~isLoading
    /\ error = Some(DeniedMessage)
    /\ GrantAccessOffered(error)
\* C13: in every reachable state exactly one refresh timer is active when a
\* snapshot is present, its callback holding that snapshot, and none is
\* active otherwise (before the mount, after a reload, while a manual search
\* has cleared the snapshot): two timers are never active together.
OneTimerPerSnapshot ==
    /\ Len(timers) = IF weatherData # Null THEN 1 ELSE 0
    /\ \A t \in 1..Len(timers) : Some(timers[t]) = weatherData

\* C13 witness: a refresh has replaced the snapshot "Oslo, NO" by the reading
\* for Paris: the one timer active is the one armed for the new snapshot.
TimerRearmedForParis ==
    /\ Done(TRUE, {"ok"})
    /\ weatherData = Some(Reply(Paris, FR, 21, Null))
    /\ timers = <<Reply(Paris, FR, 21, Null)>>
    /\ \E k \in 1..Len(inflight) :
           inflight[k].isRefresh /\ inflight[k].q = Oslo \o <<",", " ">> \o NO
\* the store holds the in-memory unit, icon set, theme and history
PersistedEqualsMemory ==
    storage = Stored(Some(unit), Some(iconSet), Some(theme),
                     Some(JSONstringify(searchHistory)))

\* what the first render read for a key the store does not hold
AbsentReadsDefault ==
    /\ storage.unit = Null => unit = Celsius
    /\ storage.iconSet = Null => iconSet = emojis
    /\ storage.theme = Null => theme = light
    /\ storage.history = Null => searchHistory = <<>>

\* C14: once the page is mounted, after every step (a change of unit, icon
\* set, theme or search history among them) the persisted values equal the
\* in-memory values; a reload re-reads the same unit, icon set, theme and
\* the same ordered history; and a first render reads a key absent from the
\* store as its default (C, emojis, light, empty history).
StoreFollowsMemory ==
    /\ [](AbsentReadsDefault /\ (mounted => PersistedEqualsMemory))
    /\ [][(last'.ev = "restart" /\ ~mounted')
          => /\ ~crashed'
             /\ unit' = unit /\ iconSet' = iconSet /\ theme' = theme
             /\ searchHistory' = searchHistory]_vars

\* C14 witness: the page was reloaded after the user chose Fahrenheit, the
\* classic icons and the dark theme and after a search for "paris" succeeded
\* on top of a stored history with an entry that JSON escapes; all four were
\* read back.
PreferencesReadBack ==
    /\ last.ev = "restart" /\ ~mounted
    /\ unit = Fahrenheit /\ iconSet = classic /\ theme = dark
    /\ searchHistory = <<paris, Quoted, Tokyo>>
\* C15 as claimed: when the stored search history is unparsable at startup,
\* initialisation does not raise: the history falls back to the empty list
\* and the application starts normally.
UnparsableHistoryFallsBack ==
    (storage.history # Null /\ ~JSONparse(storage.history[1]).ok)
    => (~crashed /\ searchHistory = <<>>)
\* the step completes the i-th pending fetch
Completed(i) == Completes /\ inflight' = RemoveAt(inflight, i)

\* the step completes a fetch with a failure, whose message is this one
Fails == last'.outcome \in {"domain", "throw"}
FailureMessage ==
    IF last'.outcome = "domain" THEN last'.reply[1].error[1] ELSE TransportMessage

\* C16 as claimed: every failing manual action, namely a form search, a
\* history click and an explicit user refresh, sets error to the failure's
\* message, replacing any previous error.
ManualFailureSetsError ==
    [][\A i \in 1..Len(inflight) :
           (Completed(i) /\ Fails /\ inflight[i].via \in {"form", "history", "button"})
           => error' = Some(FailureMessage)]_vars

\* C16 as amended: every failing manual search, namely a form search, a
\* history click and a search for the device's position, sets error to the
\* failure's message, replacing any previous error; a failing explicit user
\* refresh, like a failing timer refresh, leaves error as it was.
SearchFailureSetsError ==
    [][\A i \in 1..Len(inflight) :
           (Completed(i) /\ Fails)
           => IF inflight[i].via \in {"form", "history", "geo"}
              THEN error' = Some(FailureMessage)
              ELSE error' = error]_vars

\* C16 witness: the Refresh button's request has failed (the refresh still
\* pending is the timer's) and no error is shown: the card is still there.
ButtonRefreshFailedSilently ==
    /\ Done(TRUE, {"domain", "throw"})
    /\ inflight # <<>>
    /\ \A k \in 1..Len(inflight) : inflight[k].via = "timer"
    /\ ~isRefreshing
    /\ error = Null /\ CardShown
\* a refresh issued by the given source is in flight
RefreshInFlight(vias) == \E k \in 1..Len(inflight) : inflight[k].via \in vias

\* C17 as claimed: around every refresh attempt, by the 15-minute timer or
\* by the explicit user refresh, isRefreshing is true while the attempt is in
\* flight and false again when it has completed.
RefreshingAroundEveryRefresh ==
    isRefreshing <=> RefreshInFlight({"timer", "button"})

\* C17 as amended: around every explicit user refresh isRefreshing is true
\* while the attempt is in flight and returns to false when it completes, on
\* success and on failure alike; a timer refresh changes isRefreshing neither
\* when it is issued nor when it completes.
RefreshingAroundButtonRefresh ==
    /\ [](isRefreshing <=> RefreshInFlight({"button"}))
    /\ [][/\ \A i \in 1..Len(inflight) :
                 (Completed(i) /\ inflight[i].via = "timer")
                 => isRefreshing' = isRefreshing
          /\ (Issues /\ inflight'[Len(inflight')].via = "timer")
                 => isRefreshing' = isRefreshing]_vars

\* C17 witness: the timer's refresh has completed while the Refresh button's
\* request is still in flight: isRefreshing is still true.
TimerRefreshDoneDuringButtonRefresh ==
    /\ Done(TRUE, {"ok", "domain", "throw"})
    /\ RefreshInFlight({"button"}) /\ ~RefreshInFlight({"timer"})
    /\ isRefreshing
\* C18 as claimed: after any sequence of manual searches, overlapping ones
\* included, the history holds the most recent successfully searched distinct
\* locations, most recent completion first: every manual search that succeeds
\* puts its entry in front of the entries the history holds at that moment,
\* so that of two overlapping searches that both succeed both are in the
\* history afterwards.
HistoryKeepsOverlappingSearches ==
    [][\A i \in 1..Len(inflight) :
           (Completed(i) /\ last'.outcome = "ok" /\ ~inflight[i].isRefresh)
           => MovedToFront(HistoryEntry(inflight[i].q, last'.reply[1]),
                           searchHistory, searchHistory')]_vars
\* C19 as claimed: isLoading is true in every state in which a manual search
\* (form submit, history click or geolocation-triggered fetch) is still in
\* flight, also when several overlap and one of them has completed.
LoadingWhileSearching == ManualInFlight => isLoading

\* C19 as amended: isLoading becomes true when a manual search is issued and
\* false when any manual search completes, whatever is still in flight; it
\* is true in every state in which the manual search in flight has not
\* overlapped another fetch, and while a manual search is in flight it falls
\* only by the completion of a manual search or a reload of the page.
LoadingUntilFirstCompletion ==
    /\ []((ManualInFlight /\ solo) => isLoading)
    /\ [][/\ (Issues /\ ~last'.isRefresh) => isLoading'
          /\ (Completes /\ ~last'.isRefresh) => ~isLoading'
          /\ (ManualInFlight /\ isLoading /\ ~isLoading')
                 => \/ Completes /\ ~last'.isRefresh
                    \/ last'.ev = "restart"]_vars

\* C19 witness: of two overlapping manual searches one has completed and the
\* other is still in flight: the loader is off.
LoaderOffWhileSearching ==
    /\ Done(FALSE, {"ok", "domain", "throw"})
    /\ ManualInFlight
    /\ ~isLoading
\* no model request and no geolocation request is in flight
NothingInFlight == inflight = <<>> /\ geoPending = <<>>

\* C20: whenever no model request and no geolocation request is in flight,
\* isLoading and isRefreshing are both false: the completion of a manual
\* search and the error callback of a geolocation request lower isLoading,
\* and the completion of an explicit refresh lowers isRefreshing, whatever
\* the outcome.
FlagsIdleWhenNothingInFlight ==
    /\ [](NothingInFlight => (~isLoading /\ ~isRefreshing))
    /\ [][/\ (Completes /\ ~last'.isRefresh) => ~isLoading'
          /\ (last'.ev = "geo" /\ last'.outcome \in {"denied", "unavailable"}
                 /\ geoPending' # geoPending) => ~isLoading'
          /\ \A i \in 1..Len(inflight) :
                 (Completed(i) /\ inflight[i].via = "button") => ~isRefreshing']_vars

\* C20 witness: the position request that raised the loader has failed as
\* unavailable and nothing is in flight: both flags are down.
IdleAfterPositionUnavailable ==
    /\ last = GeoEvent("unavailable")
    /\ NothingInFlight
    /\ error = Some(UnavailableMessage)
    /\ ~isLoading /\ ~isRefreshing
\* the success callback of a position request has run: the request left the
\* pending ones and a fetch was issued
Granted == Issues /\ Len(geoPending') = Len(geoPending) - 1

\* the elements of a sequence
Range(seq) == {seq[i] : i \in 1..Len(seq)}

\* C21 as claimed: when the position is granted, a fetch is issued with the
\* query 'latitude,longitude' and it behaves as a manual search: the snapshot
\* and the error are cleared and isLoading is set; when that fetch succeeds,
\* the entry put in front of the history is the reply's 'name, country', and
\* the coordinate string is never in the history.
PositionSearchRecordsPlace ==
    [][/\ Granted
          => /\ \E p \in FinePositions :
                    inflight'[Len(inflight')].q = CoordQuery(p)
             /\ ~inflight'[Len(inflight')].isRefresh
             /\ weatherData' = Null /\ error' = Null /\ isLoading'
       /\ \A i \in 1..Len(inflight) :
              (Completed(i) /\ inflight[i].via = "geo" /\ last'.outcome = "ok")
              => /\ searchHistory' # <<>>
                 /\ searchHistory'[1] = LocationLabel(last'.reply[1])
                 /\ inflight[i].q \notin Range(searchHistory')]_vars

\* C22: submitting a query that is empty or only whitespace issues no request
\* and changes no state: the snapshot, the error, isLoading, the history, the
\* typed query, the pending requests and the store all stay as they were;
\* the form issues a request only for a query that is not blank, and asks
\* for that query trimmed.
BlankSubmitChangesNothing ==
    [][/\ last'.ev = "submit"
          => /\ trim(query) = <<>>
             /\ UNCHANGED <<query, weatherData, isLoading, isRefreshing, error,
                            searchHistory, inflight, geoPending, nSearch,
                            unit, iconSet, theme, storage, timers>>
       /\ (Issues /\ inflight'[Len(inflight')].via = "form")
          => /\ trim(query) # <<>>
             /\ inflight'[Len(inflight')].q = trim(query)]_vars

\* C22 witness: a blank has been submitted over a snapshot and a history,
\* and all of them are still there.
BlankSubmittedOverSnapshot ==
    /\ last.ev = "submit"
    /\ query = <<" ">>
    /\ weatherData # Null
    /\ searchHistory # <<>>
    /\ inflight = <<>>
====
